---- MODULE Spec2Model ----
(***************************************************************************)
(* A model of src/server.js: the Express proxy in front of the Openverse   *)
(* API.  Each slot of Reqs is one inbound HTTP request; a search request   *)
(* runs its handler up to the first await (the token POST), resumes when   *)
(* the token endpoint answers (and issues the search GET), and resumes     *)
(* once more when the search endpoint answers.  The upstream is the        *)
(* environment: it may answer each call with any reply of a small set, or  *)
(* never answer.                                                           *)
(***************************************************************************)
EXTENDS Integers, Sequences, FiniteSets, TLC

\* Number of inbound requests the server handles, possibly concurrently.
NumReqs == 2

Reqs == 1..NumReqs

VARIABLES
    CLIENT_ID,      \* process.env.OPENVERSE_CLIENT_ID, read once at startup
    CLIENT_SECRET,  \* process.env.OPENVERSE_CLIENT_SECRET, read once at startup
    req,            \* per request: the route and req.query
    pc,             \* per request: where its handler is suspended
    accessToken,    \* per request: the handler's local accessToken
    calls,          \* per request: the outbound HTTP calls issued so far
    tokenReply,     \* per request: what the token endpoint answered
    searchReply,    \* per request: what the search endpoint answered
    res             \* per request: the HTTP response sent to the caller

vars == <<CLIENT_ID, CLIENT_SECRET, req, pc, accessToken, calls,
          tokenReply, searchReply, res>>

----------------------------------------------------------------------------
(* JavaScript values *)

Undefined == [type |-> "undefined"]

Str(s) == [type |-> "string", val |-> s]

Arr(xs) == [type |-> "array", val |-> xs]

\* ToBoolean: undefined and '' are falsy, other strings and arrays truthy.
Truthy(v) ==
    IF v.type = "undefined" THEN FALSE
    ELSE IF v.type = "string" THEN v.val /= ""
    ELSE TRUE

\* String(v) inside a template literal.
ToStr(v) ==
    IF v.type = "undefined" THEN "undefined"
    ELSE IF v.type = "string" THEN v.val
    ELSE "<array>"

\* obj?.name : undefined when obj is undefined or has no such property.
Field(obj, name) ==
    IF name \in DOMAIN obj /\ name /= "type" THEN obj[name] ELSE Undefined

----------------------------------------------------------------------------
(* HTTP replies of the upstream, as axios sees them *)

Resp(status, data) == [type |-> "response", status |-> status, data |-> data]

\* No HTTP response at all (DNS failure, connection reset, ...).
NetworkError == [type |-> "network"]

NoReply == [type |-> "none"]

\* axios resolves on a 2xx status (its default validateStatus) and rejects
\* otherwise.
AxiosResolves(reply) ==
    reply.type = "response" /\ reply.status >= 200 /\ reply.status < 300

\* The error axios rejects with: error.response is set only when the
\* upstream answered.
AxiosError(reply) ==
    IF reply.type = "response"
    THEN [message  |-> <<"Request failed with status code ", ToString(reply.status)>>,
          response |-> reply]
    ELSE [message |-> <<"Network Error">>, response |-> Undefined]

\* error.response?.status ; 0 stands for undefined (falsy, and equal to no
\* HTTP status).
StatusOf(error) ==
    IF error.response.type = "response" THEN error.response.status ELSE 0

\* error.response?.data
DataOf(error) ==
    IF error.response.type = "response" THEN error.response.data ELSE Undefined

----------------------------------------------------------------------------
(* Startup configuration and fixed tables *)

\* What process.env can hold for a variable: unset, set to '', or set.
EnvValues == {Undefined, Str(""), Str("id-or-secret")}

validLicensesWithPDM ==
    {"CC0", "BY", "BY-SA", "BY-NC", "BY-ND", "BY-NC-SA", "BY-NC-ND", "PDM"}

validLicenses == {"CC0", "BY", "BY-SA", "BY-NC", "BY-ND", "BY-NC-SA", "BY-NC-ND"}

validMediaTypes == {"images", "audio"}

TokenUrl == "https://api.openverse.org/v1/auth_tokens/token/"

----------------------------------------------------------------------------
(* getAccessToken *)

CredentialsMissingIdOnly == ~Truthy(CLIENT_ID)

\* if (!CLIENT_ID || !CLIENT_SECRET)
CredentialsMissing == ~Truthy(CLIENT_ID) \/ ~Truthy(CLIENT_SECRET)

\* The Error thrown before any network call when a credential is missing.
ConfigError ==
    [message  |-> <<"Missing OPENVERSE_CLIENT_ID or OPENVERSE_CLIENT_SECRET in .env file">>,
     response |-> Undefined]

\* The form-encoded token request.
TokenPost ==
    [method |-> "POST",
     url    |-> TokenUrl,
     body   |-> [client_id     |-> ToStr(CLIENT_ID),
                 client_secret |-> ToStr(CLIENT_SECRET),
                 grant_type    |-> "client_credentials"]]

\* The message chosen in getAccessToken's catch block.
TokenErrorMessage(error) ==
    IF StatusOf(error) = 400
       /\ Field(DataOf(error), "error") = Str("unsupported_grant_type")
    THEN <<"Unsupported grant_type. Contact openverse@wordpress.org for the correct grant_type.">>
    ELSE IF StatusOf(error) = 401
    THEN <<"Authentication failed: Invalid client_id or client_secret">>
    ELSE IF StatusOf(error) = 429
    THEN <<"Rate limit exceeded. Please try again later.">>
    ELSE <<"Failed to obtain access token">>

getAccessTokenSwallowingErrors(reply) ==
    IF AxiosResolves(reply)
    THEN [ok |-> TRUE, value |-> Field(reply.data, "access_token")]
    ELSE [ok |-> TRUE, value |-> Undefined]

\* getAccessToken once the token POST has settled: the access_token of a 2xx
\* answer, else a fresh Error carrying only the mapped message (the axios
\* error's response is not copied onto it).
getAccessToken(reply) ==
    IF AxiosResolves(reply)
    THEN [ok |-> TRUE, value |-> Field(reply.data, "access_token")]
    ELSE [ok    |-> FALSE,
          error |-> [message  |-> TokenErrorMessage(AxiosError(reply)),
                     response |-> Undefined]]

----------------------------------------------------------------------------
(* The /api/search handler *)

ValidMediaTypeUnlessMissing(mediaType) ==
    ~Truthy(mediaType)
    \/ (mediaType.type = "string" /\ mediaType.val \in validMediaTypes)

\* validMediaTypes.includes(mediaType): only a string equal to an entry.
ValidMediaType(mediaType) ==
    mediaType.type = "string" /\ mediaType.val \in validMediaTypes

\* license && !validLicenses.includes(license)
LicenseRejected(license) ==
    Truthy(license)
    /\ ~(license.type = "string" /\ license.val \in validLicenses)

\* encodeURIComponent(q) on the sample query strings; undefined is encoded
\* as the text "undefined".
EncodeURIComponent(q) ==
    IF q.type = "undefined" THEN "undefined"
    ELSE IF q.val = "cat" THEN "cat"
    ELSE IF q.val = "a b" THEN "a%20b"
    ELSE q.val

\* apiUrl: the license part is appended only for a truthy license.
ApiUrl(query) ==
    [base    |-> "https://api.openverse.org/v1/",
     path    |-> ToStr(query.mediaType),
     q       |-> EncodeURIComponent(query.q),
     license |-> IF Truthy(query.license) THEN ToStr(query.license) ELSE ""]

BearerHeaderCached(token) ==
    IF \E s \in Reqs : Truthy(accessToken[s])
    THEN <<"Bearer ", ToStr(accessToken[CHOOSE s \in Reqs : Truthy(accessToken[s])])>>
    ELSE <<"Bearer ", ToStr(token)>>

\* Authorization: `Bearer ${accessToken}`
BearerHeader(token) == <<"Bearer ", ToStr(token)>>

SearchGet(query, token) ==
    [method  |-> "GET",
     url     |-> ApiUrl(query),
     headers |-> [Authorization |-> BearerHeader(token)]]

SearchErrorMessageNo429(error) ==
    IF StatusOf(error) = 400
    THEN <<"Bad request: ",
           IF Truthy(Field(DataOf(error), "detail"))
           THEN ToStr(Field(DataOf(error), "detail"))
           ELSE "Invalid parameters, possibly license">>
    ELSE IF StatusOf(error) = 401
    THEN <<"Authentication failed: Invalid or expired access token">>
    ELSE error.message

\* The message chosen in the handler's catch block.
SearchErrorMessage(error) ==
    IF StatusOf(error) = 400
    THEN <<"Bad request: ",
           IF Truthy(Field(DataOf(error), "detail"))
           THEN ToStr(Field(DataOf(error), "detail"))
           ELSE "Invalid parameters, possibly license">>
    ELSE IF StatusOf(error) = 401
    THEN <<"Authentication failed: Invalid or expired access token">>
    ELSE IF StatusOf(error) = 429
    THEN <<"Rate limit exceeded. Please try again later.">>
    ELSE error.message

ErrorStatusAlways500(error) == 500

\* error.response?.status || 500
ErrorStatus(error) ==
    IF StatusOf(error) /= 0 THEN StatusOf(error) ELSE 500

\* res.status(...).json({ error: errorMessage })
ErrorResponse(error) ==
    [status |-> ErrorStatus(error), body |-> [error |-> SearchErrorMessage(error)]]

\* res.status(400).json({ error: ... }) of the two validation failures.
InvalidMediaTypeResponse ==
    [status |-> 400,
     body   |-> [error |-> <<"Invalid mediaType. Must be one of: ", "images, audio">>]]

InvalidLicenseResponse ==
    [status |-> 400,
     body   |-> [error |-> <<"Invalid license. Must be one of: ",
                             "CC0, BY, BY-SA, BY-NC, BY-ND, BY-NC-SA, BY-NC-ND">>]]

resJsonWrapped(data) == [status |-> 200, body |-> [data |-> data]]

\* res.json(data): status 200 (Express's default) and the value as the body.
resJson(data) == [status |-> 200, body |-> data]

HealthBodyStarting == [status |-> "STARTING", message |-> "Server is running"]

\* The body of /api/health.
HealthBody == [status |-> "OK", message |-> "Server is running"]

----------------------------------------------------------------------------
(* Inputs: the requests callers send and the answers the upstream gives *)

Query(q, mediaType, license) == [q |-> q, mediaType |-> mediaType, license |-> license]

\* The query strings of the /api/search requests: every way mediaType can be
\* wrong (missing, empty, unknown, repeated), every way license can be
\* given (missing, empty, allowed, unknown, repeated), q present or missing.
Queries ==
    { Query(Str("cat"), Undefined, Str("BY")),
      Query(Undefined, Str(""), Undefined),
      Query(Str("cat"), Str("video"), Str("PDM")),
      Query(Str("cat"), Arr(<<"images", "audio">>), Undefined),
      Query(Str("cat"), Str("images"), Str("PDM")),
      Query(Str("a b"), Str("audio"), Arr(<<"BY", "CC0">>)),
      Query(Str("cat"), Str("audio"), Str("")),
      Query(Str("a b"), Str("images"), Str("BY")),
      Query(Undefined, Str("audio"), Undefined) }

NoQuery == Query(Undefined, Undefined, Undefined)

NoRequest == [path |-> "", query |-> NoQuery]

NoResponse == [status |-> 0, body |-> Undefined]

\* Answers of the token endpoint: a token, a 2xx body without access_token,
\* or one of its failures.
TokenReplies ==
    { Resp(200, [access_token |-> Str("tokA")]),
      Resp(200, [access_token |-> Str("tokB")]),
      Resp(200, [token_type |-> Str("Bearer")]),
      Resp(400, [error |-> Str("unsupported_grant_type")]),
      Resp(400, [error |-> Str("invalid_request")]),
      Resp(401, [error |-> Str("invalid_client")]),
      Resp(429, [detail |-> Str("Request was throttled.")]),
      NetworkError }

\* Answers of the search endpoint: a JSON result page, or one of its failures.
SearchReplies ==
    { Resp(200, [result_count |-> 0, results |-> <<>>]),
      Resp(200, [result_count |-> 1, results |-> <<"img-1">>]),
      Resp(400, [detail |-> Str("Invalid license")]),
      Resp(400, [detail |-> Str("")]),
      Resp(401, [detail |-> Str("Invalid token")]),
      Resp(429, [detail |-> Str("Request was throttled.")]),
      Resp(404, [detail |-> Str("Not found")]),
      Resp(503, Undefined),
      NetworkError }

----------------------------------------------------------------------------
(* The state machine *)

Init ==
    /\ CLIENT_ID \in EnvValues
    /\ CLIENT_SECRET \in EnvValues
    /\ req = [r \in Reqs |-> NoRequest]
    /\ pc = [r \in Reqs |-> "idle"]
    /\ accessToken = [r \in Reqs |-> Undefined]
    /\ calls = [r \in Reqs |-> <<>>]
    /\ tokenReply = [r \in Reqs |-> NoReply]
    \* the search endpoint has answered nothing yet
    /\ searchReply = [r \in Reqs |-> NoReply]
    /\ res = [r \in Reqs |-> NoResponse]

\* GET /api/search arrives: the handler runs up to its first await.  It
\* answers 400 on a bad mediaType, then 400 on a bad license; otherwise
\* getAccessToken either throws on missing credentials (caught by the
\* handler, which answers at once) or issues the token POST and suspends.
SearchRequest(r, query) ==
    /\ pc[r] = "idle"
    /\ req' = [req EXCEPT ![r] = [path |-> "/api/search", query |-> query]]
    /\ IF ~ValidMediaType(query.mediaType)
       THEN /\ res' = [res EXCEPT ![r] = InvalidMediaTypeResponse]
            /\ pc' = [pc EXCEPT ![r] = "done"]
            /\ calls' = calls
       ELSE IF LicenseRejected(query.license)
       THEN /\ res' = [res EXCEPT ![r] = InvalidLicenseResponse]
            /\ pc' = [pc EXCEPT ![r] = "done"]
            /\ calls' = calls
       ELSE IF CredentialsMissing
       THEN /\ res' = [res EXCEPT ![r] = ErrorResponse(ConfigError)]
            /\ pc' = [pc EXCEPT ![r] = "done"]
            /\ calls' = calls
       ELSE /\ calls' = [calls EXCEPT ![r] = Append(@, TokenPost)]
            /\ pc' = [pc EXCEPT ![r] = "awaitToken"]
            /\ res' = res
    /\ UNCHANGED <<CLIENT_ID, CLIENT_SECRET, accessToken, tokenReply, searchReply>>

\* The token POST settles: getAccessToken returns the token and the handler
\* issues the search GET, or getAccessToken throws and the handler's catch
\* block answers.
TokenSettled(r, reply) ==
    /\ pc[r] = "awaitToken"
    /\ tokenReply' = [tokenReply EXCEPT ![r] = reply]
    /\ LET out == getAccessToken(reply) IN
       IF out.ok
       THEN /\ accessToken' = [accessToken EXCEPT ![r] = out.value]
            /\ calls' = [calls EXCEPT ![r] = Append(@, SearchGet(req[r].query, out.value))]
            /\ pc' = [pc EXCEPT ![r] = "awaitSearch"]
            /\ res' = res
       ELSE /\ res' = [res EXCEPT ![r] = ErrorResponse(out.error)]
            /\ pc' = [pc EXCEPT ![r] = "done"]
            /\ UNCHANGED <<accessToken, calls>>
    /\ UNCHANGED <<CLIENT_ID, CLIENT_SECRET, req, searchReply>>

\* The search GET settles: the body is relayed, or the catch block answers.
SearchSettled(r, reply) ==
    /\ pc[r] = "awaitSearch"
    /\ searchReply' = [searchReply EXCEPT ![r] = reply]
    /\ res' = [res EXCEPT ![r] =
                  IF AxiosResolves(reply)
                  THEN resJson(reply.data)
                  ELSE ErrorResponse(AxiosError(reply))]
    /\ pc' = [pc EXCEPT ![r] = "done"]
    /\ UNCHANGED <<CLIENT_ID, CLIENT_SECRET, req, accessToken, calls, tokenReply>>

\* GET /api/health arrives and is answered synchronously.
HealthRequest(r) ==
    /\ pc[r] = "idle"
    /\ req' = [req EXCEPT ![r] = [path |-> "/api/health", query |-> NoQuery]]
    /\ res' = [res EXCEPT ![r] = resJson(HealthBody)]
    /\ pc' = [pc EXCEPT ![r] = "done"]
    /\ UNCHANGED <<CLIENT_ID, CLIENT_SECRET, accessToken, calls, tokenReply, searchReply>>

Next ==
    \E r \in Reqs :
        \/ \E query \in Queries : SearchRequest(r, query)
        \/ \E reply \in TokenReplies : TokenSettled(r, reply)
        \/ \E reply \in SearchReplies : SearchSettled(r, reply)
        \/ HealthRequest(r)

Spec == Init /\ [][Next]_vars

----------------------------------------------------------------------------
(* Vocabulary of the properties *)

IsSearch(r) == req[r].path = "/api/search"

IsHealth(r) == req[r].path = "/api/health"

\* The mediaType parameter is exactly 'images' or 'audio'.
MediaTypeAllowed(r) ==
    /\ req[r].query.mediaType.type = "string"
    /\ req[r].query.mediaType.val \in {"images", "audio"}

\* The license parameter is one of the seven allowed values.
LicenseAllowed(r) ==
    /\ req[r].query.license.type = "string"
    /\ req[r].query.license.val \in
           {"CC0", "BY", "BY-SA", "BY-NC", "BY-ND", "BY-NC-SA", "BY-NC-ND"}

LicenseAbsent(r) == req[r].query.license.type = "undefined"

LicenseEmpty(r) == req[r].query.license = [type |-> "string", val |-> ""]

\* The upstream answered the call with a 2xx status.
Succeeded(reply) ==
    reply.type = "response" /\ reply.status \in 200..299

\* The upstream answered the call with this (non-2xx) status.
FailedWith(reply, status) ==
    reply.type = "response" /\ reply.status = status

\* The call failed: a non-2xx answer or no answer at all.
Failed(reply) ==
    \/ reply.type = "network"
    \/ reply.type = "response" /\ reply.status \notin 200..299

\* A caller-facing error response: a JSON object with the single key error,
\* holding text.
IsErrorBody(body) ==
    /\ DOMAIN body = {"error"}
    /\ body.error \in Seq(STRING)
    /\ Len(body.error) >= 1

\* No outbound call, token POST or search GET, was issued for request r.
NoOutboundCall(r) == calls[r] = <<>>

bothCredentialsConfigured ==
    /\ CLIENT_ID.type = "string" /\ CLIENT_ID.val /= ""
    /\ CLIENT_SECRET.type = "string" /\ CLIENT_SECRET.val /= ""

----------------------------------------------------------------------------
(* Properties *)

\* C1: every /api/search request whose mediaType is not exactly 'images' or
\* 'audio' (missing and empty included), whatever q, license and the
\* credentials are, is answered 400 with an {error} body and issues no
\* outbound call.
C1_InvalidMediaTypeRejected ==
    \A r \in Reqs :
        IsSearch(r) /\ ~MediaTypeAllowed(r) =>
            /\ pc[r] = "done"
            /\ res[r].status = 400
            /\ IsErrorBody(res[r].body)
            /\ NoOutboundCall(r)

\* A request without mediaType was rejected although its license is valid
\* and the credentials are configured.
C1_Witness ==
    \E r \in Reqs :
        /\ IsSearch(r)
        /\ req[r].query.mediaType.type = "undefined"
        /\ LicenseAllowed(r)
        /\ bothCredentialsConfigured
        /\ res[r].status = 400

\* C2 as stated: every request with a valid mediaType whose license appears
\* in the query string and is not one of the seven values is answered 400
\* without any outbound call.
C2_Original ==
    \A r \in Reqs :
        IsSearch(r) /\ MediaTypeAllowed(r) /\ ~LicenseAbsent(r) /\ ~LicenseAllowed(r) =>
            /\ pc[r] = "done"
            /\ res[r].status = 400
            /\ NoOutboundCall(r)

\* C2 amended: a license that is provided, non-empty and not one of the seven
\* values is answered 400 before any outbound call; an empty license
\* (?license=) is treated as absent: it is never answered with the
\* invalid-license error, and the upstream URL carries no license.
C2_NonEmptyInvalidLicenseRejected ==
    \A r \in Reqs :
        IsSearch(r) /\ MediaTypeAllowed(r) =>
            /\ ~LicenseAbsent(r) /\ ~LicenseEmpty(r) /\ ~LicenseAllowed(r) =>
                  /\ pc[r] = "done"
                  /\ res[r].status = 400
                  /\ IsErrorBody(res[r].body)
                  /\ NoOutboundCall(r)
            /\ LicenseEmpty(r) =>
                  /\ pc[r] = "done" => res[r] /= InvalidLicenseResponse
                  /\ bothCredentialsConfigured => Len(calls[r]) >= 1
                  /\ Len(calls[r]) = 2 => calls[r][2].url.license = ""

\* An unknown license and a repeated license parameter were both rejected
\* while the credentials are configured.
C2_Witness ==
    /\ bothCredentialsConfigured
    /\ \E r \in Reqs :
          /\ IsSearch(r) /\ MediaTypeAllowed(r)
          /\ req[r].query.license = [type |-> "string", val |-> "PDM"]
          /\ res[r].status = 400
    /\ \E r \in Reqs :
          /\ IsSearch(r) /\ MediaTypeAllowed(r)
          /\ req[r].query.license.type = "array"
          /\ res[r].status = 400

\* C3 as stated: a 401 (429) of the token endpoint reaches the caller as
\* status 401 (429) with the mapped message.
C3_TokenFailureStatusSurfaced ==
    \A r \in Reqs :
        /\ FailedWith(tokenReply[r], 401) =>
              /\ res[r].status = 401
              /\ res[r].body =
                     [error |-> <<"Authentication failed: Invalid client_id or client_secret">>]
        /\ FailedWith(tokenReply[r], 429) =>
              /\ res[r].status = 429
              /\ res[r].body = [error |-> <<"Rate limit exceeded. Please try again later.">>]

\* C4 as stated: a failed search GET whose status is absent or is none of
\* 400, 401, 429 is answered 500 with the raw error message.
C4_Original ==
    \A r \in Reqs :
        /\ Failed(searchReply[r])
        /\ ~(\E st \in {400, 401, 429} : FailedWith(searchReply[r], st))
        => /\ res[r].status = 500
           /\ res[r].body = [error |-> AxiosError(searchReply[r]).message]

\* C4 amended: a failed search GET is answered 500 with the raw error message
\* only when the upstream gave no response at all; when it answered with a
\* status other than 400, 401, 429 (404, 503, ...), that status is passed
\* through to the caller, with the raw error message.
C4_StatusPassedThroughElse500 ==
    \A r \in Reqs :
        /\ searchReply[r].type = "network" =>
              /\ res[r].status = 500
              /\ res[r].body = [error |-> <<"Network Error">>]
        /\ /\ searchReply[r].type = "response"
           /\ searchReply[r].status \notin 200..299
           /\ searchReply[r].status \notin {400, 401, 429}
           => /\ res[r].status = searchReply[r].status
              /\ res[r].body =
                     [error |-> <<"Request failed with status code ",
                                  ToString(searchReply[r].status)>>]

\* One search GET got no response and another was answered 404.
C4_Witness ==
    /\ \E r \in Reqs : searchReply[r].type = "network" /\ res[r].status = 500
    /\ \E r \in Reqs : FailedWith(searchReply[r], 404) /\ res[r].status = 404

\* C5: when the token POST and the search GET of a request both return 2xx,
\* the response is 200 and its body is the JSON body of the search answer.
C5_SuccessRelayedUnchanged ==
    \A r \in Reqs :
        IsSearch(r) /\ Succeeded(tokenReply[r]) /\ Succeeded(searchReply[r]) =>
            /\ pc[r] = "done"
            /\ res[r].status = 200
            /\ res[r].body = searchReply[r].data

\* A request with a valid license got a non-empty result page relayed.
C5_Witness ==
    \E r \in Reqs :
        /\ IsSearch(r) /\ LicenseAllowed(r)
        /\ Succeeded(tokenReply[r]) /\ Succeeded(searchReply[r])
        /\ searchReply[r].data.result_count = 1
        /\ res[r].status = 200

\* C6: with either credential absent or empty no request issues an outbound
\* call, and every request that passes validation (so every token request)
\* is answered at once with a 5xx {error} response naming the configuration
\* error.
C6_MissingCredentialsFailFast ==
    ~bothCredentialsConfigured =>
        \A r \in Reqs :
            IsSearch(r) =>
                /\ NoOutboundCall(r)
                /\ tokenReply[r] = NoReply /\ searchReply[r] = NoReply
                /\ MediaTypeAllowed(r) /\ (LicenseAbsent(r) \/ LicenseEmpty(r) \/ LicenseAllowed(r)) =>
                      /\ pc[r] = "done"
                      /\ res[r].status \in 500..599
                      /\ res[r].body =
                             [error |-> <<"Missing OPENVERSE_CLIENT_ID or OPENVERSE_CLIENT_SECRET in .env file">>]

\* The client id is set, the secret is empty, and a valid request got the
\* configuration error.
C6_Witness ==
    /\ CLIENT_ID.type = "string" /\ CLIENT_ID.val /= ""
    /\ CLIENT_SECRET = [type |-> "string", val |-> ""]
    /\ \E r \in Reqs :
          /\ IsSearch(r) /\ MediaTypeAllowed(r) /\ LicenseAllowed(r)
          /\ res[r].status = 500

\* C7: a search GET that fails with 400, 401 or 429 is answered with that
\* same status and the refined message of that status (429: 'Rate limit
\* exceeded. Please try again later.'), and every error response, whatever
\* its cause, is a JSON object {error: string}.
C7_SearchErrorsMapped ==
    \A r \in Reqs :
        /\ FailedWith(searchReply[r], 400) =>
              /\ res[r].status = 400
              /\ res[r].body.error[1] = "Bad request: "
              /\ res[r].body.error[2] =
                     IF searchReply[r].data.detail.val /= ""
                     THEN searchReply[r].data.detail.val
                     ELSE "Invalid parameters, possibly license"
        /\ FailedWith(searchReply[r], 401) =>
              /\ res[r].status = 401
              /\ res[r].body.error =
                     <<"Authentication failed: Invalid or expired access token">>
        /\ FailedWith(searchReply[r], 429) =>
              /\ res[r].status = 429
              /\ res[r].body.error = <<"Rate limit exceeded. Please try again later.">>
        /\ pc[r] = "done" /\ res[r].status /= 200 => IsErrorBody(res[r].body)

\* A search GET was answered 429 and the caller got 429.
C7_Witness ==
    \E r \in Reqs : FailedWith(searchReply[r], 429) /\ res[r].status = 429

\* C8: whatever the credentials and the upstream do, and whatever other
\* requests are in flight, a /api/health request is answered 200 with
\* exactly {status: 'OK', message: 'Server is running'} and issues no
\* outbound call.
C8_HealthAlwaysOK ==
    \A r \in Reqs :
        IsHealth(r) =>
            /\ pc[r] = "done"
            /\ res[r] = [status |-> 200,
                         body   |-> [status |-> "OK", message |-> "Server is running"]]
            /\ NoOutboundCall(r)
            /\ tokenReply[r] = NoReply /\ searchReply[r] = NoReply

\* A health request was answered while a search request was waiting for the
\* upstream.
C8_Witness ==
    \E r, s \in Reqs :
        /\ IsHealth(r) /\ res[r].status = 200
        /\ pc[s] \in {"awaitToken", "awaitSearch"}

\* C9: the outbound calls of one request are, in order, at most one token
\* POST and then at most one search GET; the search GET exists only once the
\* token POST has succeeded; after a failure of either call the request is
\* over and no further call was made.
C9_CallsOrderedNoRetry ==
    \A r \in Reqs :
        /\ Len(calls[r]) <= 2
        /\ Len(calls[r]) >= 1 => calls[r][1].method = "POST" /\ calls[r][1].url = TokenUrl
        /\ Len(calls[r]) = 2 =>
              /\ calls[r][2].method = "GET"
              /\ Succeeded(tokenReply[r])
        /\ Failed(tokenReply[r]) =>
              /\ Len(calls[r]) = 1
              /\ pc[r] = "done"
              /\ searchReply[r] = NoReply
        /\ Failed(searchReply[r]) =>
              /\ Len(calls[r]) = 2
              /\ pc[r] = "done"
        /\ tokenReply[r] /= NoReply => Len(calls[r]) >= 1
        /\ searchReply[r] /= NoReply => Len(calls[r]) = 2

\* One request ended on a token failure and another on a search failure.
C9_Witness ==
    \E r, s \in Reqs :
        /\ Failed(tokenReply[r]) /\ pc[r] = "done"
        /\ Failed(searchReply[s]) /\ pc[s] = "done"

\* C10: the bearer token of a request's search GET is the access_token its
\* own token POST returned, whatever other requests obtained; and the
\* response depends only on the request's own parameters and the answers to
\* its own calls: two requests with the same parameters and the same
\* answers get the same response.
C10_OwnTokenOnly ==
    /\ \A r \in Reqs :
          Len(calls[r]) = 2 =>
              /\ calls[r][1] = [method |-> "POST",
                                url    |-> TokenUrl,
                                body   |-> [client_id     |-> CLIENT_ID.val,
                                            client_secret |-> CLIENT_SECRET.val,
                                            grant_type    |-> "client_credentials"]]
              /\ Succeeded(tokenReply[r])
              /\ calls[r][2].headers.Authorization =
                     <<"Bearer ",
                       IF "access_token" \in DOMAIN tokenReply[r].data
                       THEN tokenReply[r].data.access_token.val
                       ELSE "undefined">>
    /\ \A r, s \in Reqs :
          /\ pc[r] = "done" /\ pc[s] = "done"
          /\ req[r] = req[s]
          /\ tokenReply[r] = tokenReply[s]
          /\ searchReply[r] = searchReply[s]
          => res[r] = res[s] /\ calls[r] = calls[s]

\* Two requests are in flight at once, each past its own token POST, holding
\* different tokens.
C10_Witness ==
    \E r, s \in Reqs :
        /\ pc[r] = "awaitSearch" /\ pc[s] = "awaitSearch"
        /\ tokenReply[r].data = [access_token |-> [type |-> "string", val |-> "tokA"]]
        /\ tokenReply[s].data = [access_token |-> [type |-> "string", val |-> "tokB"]]

====
